---- MODULE Spec2Model ----
(***************************************************************************)
(* report-script (main.go): one pass over the children of td.comment-body  *)
(* that fills four global counters, the headers slice, headerContentDict   *)
(* and userDict, followed by the writing of the formatted report.          *)
(*                                                                         *)
(* Strings are sequences of pieces: an action text is a sequence of words, *)
(* an output line is the sequence of the pieces fmt.Fprintf concatenates.  *)
(* A regular expression of literal alternatives is the set of its          *)
(* alternatives, each a sequence of words; MatchString is substring search.*)
(***************************************************************************)
EXTENDS Integers, Sequences, FiniteSets, TLC

VARIABLES
    pc,                 \* position of generateReport: "children", "ul", "done", "panic"
                        \* (and "count", "counted" under SpecCount)
    headers,            \* main.go:106
    headerContentDict,  \* main.go:103
    userDict,           \* main.go:97
    issueOpen, issueClose, prOpen, prClose,   \* main.go:22
    output,             \* the lines written to writer, main.go:180-212
    content,            \* the argument of count under SpecCount
    \* history of the document read so far
    nH2,                \* h2 children visited
    nLi,                \* li visited
    wellFormed,         \* every li so far followed a heading, had a text node and an issue anchor
    sawBot,             \* a li whose user handle is a bot was visited
    nMatching,          \* non-bot li whose action text matches a classification pattern
    nCounted,           \* those of nMatching whose handle was registered or carried a link
    sawSkipped,         \* a li was skipped for a missing user or issue link target
    yieldedAfterSkip,   \* and a later li yielded a contribution entry
    sawBare,            \* a h2 child without an anchor child was visited
    okBeforeHeading,    \* a li with all extractions succeeding was visited before any h2
    without             \* userDict and headerContentDict of the run on the same document
                        \* with the li skipped for a missing link target removed

vars == <<pc, headers, headerContentDict, userDict, issueOpen, issueClose, prOpen,
          prClose, output, content, nH2, nLi, wellFormed, sawBot, nMatching,
          nCounted, sawSkipped, yieldedAfterSkip, sawBare, okBeforeHeading, without>>

----------------------------------------------------------------------------
(* Bounds of the model *)

MaxH2 == 2          \* h2 children of td.comment-body
MaxLi == 2          \* li nodes of the document
MaxWords == 6       \* words of an action text under SpecCount

----------------------------------------------------------------------------
(* Constants and pure functions of main.go *)

communityPrefix == "https://github.com/beyondstorage/"

regClosePRClosedOnly == {<<"closed", "pull", "request">>}

regClosePR == {<<"merged", "pull", "request">>, <<"closed", "pull", "request">>}
regOpenPR == {<<"opened", "pull", "request">>}
regOpenIssue == {<<"opened", "issue">>}
regCloseIssue == {<<"closed", "issue">>}

\* regexp.MatchString for a regular expression of literal alternatives
MatchString(re, s) ==
    \E alt \in re :
        \E i \in 1..(Len(s) - Len(alt) + 1) : SubSeq(s, i, i + Len(alt) - 1) = alt

\* The four counters as a record, to thread them through count
Counters(io, ic, po, pcl) ==
    [issueOpen |-> io, issueClose |-> ic, prOpen |-> po, prClose |-> pcl]

countFallthrough(c, s) ==
    LET c1 == IF MatchString(regOpenPR, s) THEN [c EXCEPT !.prOpen = @ + 1] ELSE c
        c2 == IF MatchString(regClosePR, s) THEN [c1 EXCEPT !.prClose = @ + 1] ELSE c1
        c3 == IF MatchString(regOpenIssue, s) THEN [c2 EXCEPT !.issueOpen = @ + 1] ELSE c2
    IN  IF MatchString(regCloseIssue, s) THEN [c3 EXCEPT !.issueClose = @ + 1] ELSE c3

\* func count: a Go switch, the first true case runs and nothing falls through
count(c, s) ==
    CASE MatchString(regOpenPR, s) -> [c EXCEPT !.prOpen = @ + 1]
      [] ~MatchString(regOpenPR, s) /\ MatchString(regClosePR, s) ->
            [c EXCEPT !.prClose = @ + 1]
      [] ~MatchString(regOpenPR, s) /\ ~MatchString(regClosePR, s)
            /\ MatchString(regOpenIssue, s) -> [c EXCEPT !.issueOpen = @ + 1]
      [] ~MatchString(regOpenPR, s) /\ ~MatchString(regClosePR, s)
            /\ ~MatchString(regOpenIssue, s) /\ MatchString(regCloseIssue, s) ->
            [c EXCEPT !.issueClose = @ + 1]
      [] OTHER -> c

isBotDependabotOnly(name) == name \in {"@dependabot"}

\* func isBot
isBot(name) == name \in {"@dependabot", "@BeyondRobot"}

----------------------------------------------------------------------------
(* The document: the children of td.comment-body, as the parser hands them over *)

Handles == {"@alice", "@bob"}
BotHandles == {"@dependabot", "@BeyondRobot"}
HeadingNames == {"go-storage", "dal"}
ActionTexts ==
    {<<"opened", "issue">>, <<"merged", "pull", "request">>, <<"commented", "on">>}

\* the href of a user-mention anchor and of an issue anchor, and the issue title
userHref(u) == IF u = "@alice" THEN "https://github.com/alice" ELSE "https://github.com/bob"
issueHref == "http://x"
issueTitle == "Bug X"

\* A li node. user: the text of its a.user-mention children ("" when it has none);
\* href: that anchor carries an href; hasText: the li has a text-node child;
\* text: the Data of the first one; issue: "none" when no anchor is nested one
\* level inside the li, "nohref" when that anchor carries no href, else "ok".
LiNodes ==
    { [user |-> u, href |-> h, hasText |-> TRUE, text |-> t, issue |-> i] :
        u \in Handles \cup BotHandles, h \in BOOLEAN, t \in ActionTexts,
        i \in {"nohref", "ok"} }
    \cup
    { [user |-> u, href |-> h, hasText |-> TRUE, text |-> <<"opened", "issue">>,
       issue |-> "none"] : u \in Handles \cup BotHandles, h \in BOOLEAN }
    \cup
    { [user |-> u, href |-> h, hasText |-> FALSE, text |-> <<>>, issue |-> "ok"] :
        u \in Handles \cup BotHandles, h \in BOOLEAN }
    \cup
    { [user |-> "", href |-> FALSE, hasText |-> TRUE, text |-> t, issue |-> "ok"] :
        t \in ActionTexts }

----------------------------------------------------------------------------
(* generateReport: the traversal, main.go:109-176 *)

\* The variables the callbacks read and write, as one record
State(ud, hcd, hs, c) ==
    [userDict |-> ud, headerContentDict |-> hcd, headers |-> hs, c |-> c,
     status |-> "run"]

Cur == State(userDict, headerContentDict, headers,
             Counters(issueOpen, issueClose, prOpen, prClose))

\* m with key k set to v (a Go map assignment m[k] = v)
MapSet(m, k, v) == [x \in DOMAIN m \cup {k} |-> IF x = k THEN v ELSE m[x]]

\* s.Is("h2"): aNode.Text() is "" when the h2 has no a child; the section is
\* appended and its list reset whether or not the name is already present
h2Callback(S, hasAnchor, name) ==
    LET text == IF hasAnchor THEN name ELSE ""
    IN  [S EXCEPT !.headers = Append(@, text),
                  !.headerContentDict = MapSet(@, text, <<>>)]

\* main.go:142-147: the user is not in userDict and its anchor has no href
userLinkMissing(S, li) == li.user \notin DOMAIN S.userDict /\ ~li.href

registerUserForgotten(S, li) == S

\* main.go:142-149: add the user to userDict unless already there
registerUser(S, li) ==
    IF li.user \in DOMAIN S.userDict THEN S
    ELSE [S EXCEPT !.userDict = MapSet(@, li.user, userHref(li.user))]

issueLinkMissingIgnored(li) == FALSE

\* main.go:164-168
issueLinkMissing(li) == li.issue = "nohref"

\* fmt.Sprintf("[%s]%s[%s](%s)", ...), main.go:172
entry(li) ==
    <<"[", li.user, "]">> \o li.text \o
    <<"[", issueTitle, "](", IF li.issue = "ok" THEN issueHref ELSE "", ")">>

appendEntryLenient(S, li) ==
    IF Len(S.headers) = 0 THEN S
    ELSE LET header == S.headers[Len(S.headers)]
         IN  [S EXCEPT !.headerContentDict[header] = Append(@, entry(li))]

\* main.go:170-173: headers[len(headers)-1] panics (index out of range) on an
\* empty slice
appendEntry(S, li) ==
    IF Len(S.headers) = 0 THEN [S EXCEPT !.status = "panic"]
    ELSE LET header == S.headers[Len(S.headers)]
         IN  [S EXCEPT !.headerContentDict[header] = Append(@, entry(li))]

\* the callback of s.ChildrenFiltered("li").Each, main.go:126-174
liCallback(S, li) ==
    IF isBot(li.user) THEN S
    ELSE IF ~li.hasText THEN [S EXCEPT !.status = "panic"]   \* nil dereference, :137
    ELSE IF userLinkMissing(S, li) THEN S
    ELSE LET S1 == registerUser(S, li)
             S2 == [S1 EXCEPT !.c = count(@, li.text)]
         IN  IF li.issue = "none" THEN [S2 EXCEPT !.status = "panic"]  \* Nodes[0], :158
             ELSE IF issueLinkMissing(li) THEN S2
             ELSE appendEntry(S2, li)

----------------------------------------------------------------------------
(* generateReport: the writing of the report, main.go:178-212 *)

\* every order in which S can be enumerated
Orders(S) ==
    { s \in [1..Cardinality(S) -> S] : \A i, j \in DOMAIN s : s[i] = s[j] => i = j }

rangeHeadersOverMap == Orders(DOMAIN headerContentDict)

\* for _, header := range headers (main.go:192): a slice is ranged in index order
rangeHeaders == {headers}

\* for user, link := range userDict (main.go:210): the iteration order of a Go map
\* is not specified and differs from one range statement to the next
rangeUserDict == Orders(DOMAIN userDict)

\* main.go:180-189
statsBlock ==
    << <<>>,
       <<"## Weekly Stats">>,
       <<>>,
       <<"| | Opened this week | Closed this week |">>,
       <<"| ---- | ---- | ---- |">>,
       <<"| Issues | ", ToString(issueOpen), " | ", ToString(issueClose), " |">>,
       <<"| PR's | ", ToString(prOpen), " | ", ToString(prClose), " |">>,
       <<>> >>

headingLine(header) == <<"## [", header, "](", communityPrefix, header, ")">>
contentLine(c) == <<"- ">> \o c
linkLine(user) == <<"[", user, "]: ", userDict[user]>>

sectionBlockUnskipped(header) ==
    << headingLine(header), <<>> >>
    \o [i \in 1..Len(headerContentDict[header]) |->
            contentLine(headerContentDict[header][i])]
    \o << <<>> >>

\* the body of the loop over headers, main.go:193-204
sectionBlock(header) ==
    IF Len(headerContentDict[header]) = 0 THEN <<>>
    ELSE << headingLine(header), <<>> >>
         \o [i \in 1..Len(headerContentDict[header]) |->
                contentLine(headerContentDict[header][i])]
         \o << <<>> >>

RECURSIVE sectionBlocks(_)
sectionBlocks(hs) ==
    IF hs = <<>> THEN <<>> ELSE sectionBlock(Head(hs)) \o sectionBlocks(Tail(hs))

linkBlock(us) == [i \in 1..Len(us) |-> linkLine(us[i])]

\* the text written when the two range loops enumerate hs and us
Render(hs, us) == statsBlock \o sectionBlocks(hs) \o << <<>> >> \o linkBlock(us)

----------------------------------------------------------------------------
(* History of the document *)

\* the five phrases of the classification table
ClassificationPhrases ==
    {<<"opened", "pull", "request">>, <<"merged", "pull", "request">>,
     <<"closed", "pull", "request">>, <<"opened", "issue">>, <<"closed", "issue">>}

Contains(s, phrase) ==
    \E i \in 1..Len(s) : i + Len(phrase) - 1 <= Len(s)
                          /\ \A k \in 1..Len(phrase) : s[i + k - 1] = phrase[k]

MatchesAPattern(s) == \E ph \in ClassificationPhrases : Contains(s, ph)

IsWellFormedLi(li) == li.hasText /\ li.issue # "none"

\* a non-bot li that is skipped for a missing link target
MissesLink(li) ==
    /\ li.user \notin BotHandles
    /\ IsWellFormedLi(li)
    /\ \/ li.user \notin DOMAIN userDict /\ ~li.href
       \/ li.issue = "nohref"

\* a li all of whose extractions succeed
Extracts(li) ==
    /\ li.user \notin BotHandles
    /\ IsWellFormedLi(li)
    /\ li.href \/ li.user \in DOMAIN userDict
    /\ li.issue = "ok"

EmptyMap == [x \in {} |-> <<>>]

Without == State(without.userDict, without.headerContentDict, headers,
                 Counters(0, 0, 0, 0))

----------------------------------------------------------------------------
(* The state machine *)

Traversal ==
    /\ headers = <<>>
    /\ headerContentDict = EmptyMap
    /\ userDict = EmptyMap
    /\ output = <<>>
    /\ nH2 = 0 /\ nLi = 0
    /\ wellFormed = TRUE
    /\ sawBot = FALSE /\ nMatching = 0 /\ nCounted = 0
    /\ sawSkipped = FALSE /\ yieldedAfterSkip = FALSE /\ sawBare = FALSE
    /\ okBeforeHeading = FALSE
    /\ without = [userDict |-> EmptyMap, headerContentDict |-> EmptyMap]

Init ==
    /\ pc = "children" /\ content = <<>>
    /\ issueOpen = 0 /\ issueClose = 0 /\ prOpen = 0 /\ prClose = 0
    /\ Traversal

history == <<wellFormed, sawBot, nMatching, nCounted, sawSkipped, yieldedAfterSkip, sawBare,
            okBeforeHeading>>
counters == <<issueOpen, issueClose, prOpen, prClose>>

Apply(S) ==
    /\ headers' = S.headers
    /\ headerContentDict' = S.headerContentDict
    /\ userDict' = S.userDict
    /\ issueOpen' = S.c.issueOpen /\ issueClose' = S.c.issueClose
    /\ prOpen' = S.c.prOpen /\ prClose' = S.c.prClose

\* a h2 child, with an anchor child of text name or (hasAnchor false) with none
Heading(hasAnchor, name) ==
    /\ pc = "children" /\ nH2 < MaxH2
    /\ Apply(h2Callback(Cur, hasAnchor, name))
    /\ LET W == h2Callback(Without, hasAnchor, name)
       IN  without' = [userDict |-> W.userDict, headerContentDict |-> W.headerContentDict]
    /\ nH2' = nH2 + 1
    /\ sawBare' = (sawBare \/ ~hasAnchor)
    /\ UNCHANGED <<pc, output, content, nLi, wellFormed, sawBot, nMatching, nCounted,
                   sawSkipped, yieldedAfterSkip, okBeforeHeading>>

\* a ul child: its li children follow
BeginList ==
    /\ pc = "children"
    /\ pc' = "ul"
    /\ UNCHANGED <<headers, headerContentDict, userDict, counters, output, content,
                   nH2, nLi, history, without>>

\* one li of the current ul
ListItem(li) ==
    /\ pc = "ul" /\ nLi < MaxLi
    /\ LET S == liCallback(Cur, li)
           W == liCallback(Without, li)
       IN  /\ Apply(S)
           /\ pc' = IF S.status = "panic" THEN "panic" ELSE "ul"
           /\ without' = IF MissesLink(li) THEN without
                         ELSE [userDict |-> W.userDict,
                               headerContentDict |-> W.headerContentDict]
    /\ nLi' = nLi + 1
    /\ wellFormed' = (wellFormed /\ IsWellFormedLi(li) /\ Len(headers) > 0)
    /\ sawBot' = (sawBot \/ li.user \in BotHandles)
    /\ nMatching' = IF li.user \notin BotHandles /\ li.hasText /\ MatchesAPattern(li.text)
                    THEN nMatching + 1 ELSE nMatching
    /\ nCounted' = IF /\ li.user \notin BotHandles /\ li.hasText
                      /\ MatchesAPattern(li.text)
                      /\ li.href \/ li.user \in DOMAIN userDict
                   THEN nCounted + 1 ELSE nCounted
    /\ sawSkipped' = (sawSkipped \/ MissesLink(li))
    /\ yieldedAfterSkip' =
            (yieldedAfterSkip \/ (sawSkipped /\ Extracts(li) /\ Len(headers) > 0))
    /\ okBeforeHeading' = (okBeforeHeading \/ (Extracts(li) /\ Len(headers) = 0))
    /\ UNCHANGED <<output, content, nH2, sawBare>>

\* the last li of the ul has been visited
EndList ==
    /\ pc = "ul"
    /\ pc' = "children"
    /\ UNCHANGED <<headers, headerContentDict, userDict, counters, output, content,
                   nH2, nLi, history, without>>

\* a child that is neither h2 nor ul: neither s.Is("h2") nor s.Is("ul") holds
OtherChild ==
    /\ pc = "children"
    /\ UNCHANGED vars

\* the last child has been visited: write the report
WriteReport ==
    /\ pc = "children"
    /\ \E hs \in rangeHeaders, us \in rangeUserDict : output' = Render(hs, us)
    /\ pc' = "done"
    /\ UNCHANGED <<headers, headerContentDict, userDict, counters, content, nH2,
                   nLi, history, without>>

Next ==
    \/ \E name \in HeadingNames : Heading(TRUE, name)
    \/ Heading(FALSE, "")
    \/ BeginList
    \/ \E li \in LiNodes : ListItem(li)
    \/ EndList
    \/ OtherChild
    \/ WriteReport

Spec == Init /\ [][Next]_vars

----------------------------------------------------------------------------
(* count on its own: every action text of at most MaxWords words *)

Words == {"opened", "merged", "closed", "pull", "request", "issue"}
Texts == UNION { [1..n -> Words] : n \in 0..MaxWords }

\* count is called with the counters as the earlier li left them
InitCount ==
    /\ pc = "count" /\ content \in Texts
    /\ \E n \in {0, 1} :
          issueOpen = n /\ issueClose = 2 * n /\ prOpen = 3 * n /\ prClose = 4 * n
    /\ Traversal

CountContent ==
    /\ pc = "count"
    /\ LET c == count(Counters(issueOpen, issueClose, prOpen, prClose), content)
       IN  /\ issueOpen' = c.issueOpen /\ issueClose' = c.issueClose
           /\ prOpen' = c.prOpen /\ prClose' = c.prClose
    /\ pc' = "counted"
    /\ UNCHANGED <<headers, headerContentDict, userDict, output, content, nH2, nLi,
                   history, without>>

SpecCount == InitCount /\ [][CountContent]_vars

----------------------------------------------------------------------------
(* Properties *)

Range(f) == { f[x] : x \in DOMAIN f }
Entries == UNION { Range(headerContentDict[h]) : h \in DOMAIN headerContentDict }
\* the handle of a contribution entry "[<handle>]<actionText>[<title>](<link>)"
HandleOf(e) == e[2]
Sum == issueOpen + issueClose + prOpen + prClose
IsHeadingLineOf(line, h) == Len(line) = 6 /\ line[1] = "## [" /\ line[2] = h
IsContentLine(line) == Len(line) > 1 /\ line[1] = "- "
IsLinkLineOf(line, u) == Len(line) = 4 /\ line[1] = "[" /\ line[2] = u /\ line[3] = "]: "

\* C1 as stated: after the traversal of a well-formed document the four counters
\* add up to the number of non-bot li whose action text matches a pattern,
\* whether or not the li is skipped later.
C1_SumIsMatching == (pc = "done" /\ wellFormed) => Sum = nMatching

\* C1 amended: on a well-formed document the four counters add up to the number
\* of non-bot li whose action text matches a pattern and whose handle is already
\* in userDict or whose user anchor carries an href; a li skipped for a missing
\* user link is not counted, a li skipped for a missing issue link is.
C1_SumIsCounted == wellFormed => Sum = nCounted

C1_Witness ==
    /\ pc = "done" /\ wellFormed
    /\ nCounted >= 1 /\ nMatching > nCounted
    /\ Entries = {} /\ Sum = 1

\* a bot handle is no key of userDict and the handle of no entry
C2_BotFree ==
    \A b \in {"@dependabot", "@BeyondRobot"} :
        b \notin DOMAIN userDict /\ \A e \in Entries : HandleOf(e) # b

\* the step that visits a bot li (the first of the document, from any state the
\* traversal reaches) leaves the counters, userDict and the sections alone
C2_BotStep ==
    sawBot' # sawBot =>
        UNCHANGED <<issueOpen, issueClose, prOpen, prClose, userDict, headers,
                    headerContentDict, pc>>

\* C2: a li whose handle is @dependabot or @BeyondRobot changes no counter, adds
\* no userDict key and appends no entry; hence a bot handle is never a key of
\* userDict nor the handle of an entry.
C2_BotsSkipped == []C2_BotFree /\ [][C2_BotStep]_vars

C2_Witness ==
    /\ pc = "done" /\ sawBot
    /\ Cardinality(Entries) = 1 /\ Cardinality(DOMAIN userDict) = 1

\* C3: the handle of every entry stored under any section is a key of userDict,
\* and every handle of an emitted contribution line has its reference-link line
\* "[<handle>]: <profileURL>" in the output.
C3_HandlesRegistered ==
    /\ \A e \in Entries : HandleOf(e) \in DOMAIN userDict
    /\ \A i \in DOMAIN output :
          IsContentLine(output[i]) =>
              \E j \in DOMAIN output :
                  /\ IsLinkLineOf(output[j], output[i][3])
                  /\ output[j][4] = userDict[output[i][3]]

C3_Witness ==
    /\ pc = "done"
    /\ Cardinality({HandleOf(e) : e \in Entries}) = 2
    /\ \E i \in DOMAIN output : IsContentLine(output[i])

\* C4 as stated: a h2 without an anchor child aborts the run; no section is
\* registered for it, nothing more is processed and no report is written.
C4_BareHeadingAborts ==
    sawBare => (pc = "panic" /\ "" \notin Range(headers) /\ output = <<>>)

\* C5: a li whose extractions all succeed, visited before any h2, aborts the run:
\* no entry is attributed to any section and the report is never written.
C5_ListBeforeHeadingAborts ==
    /\ okBeforeHeading =>
          (pc = "panic" /\ headers = <<>> /\ Entries = {} /\ output = <<>>)
    /\ pc = "panic" => output = <<>>

C5_Witness == okBeforeHeading /\ pc = "panic" /\ Sum = 1 /\ DOMAIN userDict # {}

\* the li that reach the link checks: not a bot's, with a text and an issue anchor
LinkLi == { li \in LiNodes : li.user \notin BotHandles /\ IsWellFormedLi(li) }

\* the entry S1 appended to the list of header h of S0, or <<>> when there is none
Appended(S0, S1, h) ==
    IF S1.status = "run" /\ Len(S1.headerContentDict[h]) = Len(S0.headerContentDict[h]) + 1
    THEN S1.headerContentDict[h][Len(S1.headerContentDict[h])]
    ELSE <<>>

Body(o) == SubSeq(o, 1, Len(o) - Cardinality(DOMAIN userDict))
Links(o) == { o[i] : i \in (Len(o) - Cardinality(DOMAIN userDict) + 1)..Len(o) }

\* C7 as stated: writing the report twice from the same counters, headers,
\* headerContentDict and userDict gives the same lines in the same order.
C7_ByteIdentical ==
    pc = "done" =>
        \A hs \in rangeHeaders, us \in rangeUserDict : Render(hs, us) = output

\* C7 amended: writing the report twice from the same values gives the same
\* statistics and section lines in the same order and the same reference-link
\* lines, one per userDict key, in an order that may differ; with at most one
\* key the two texts are identical.
C7_IdenticalUpToLinkOrder ==
    pc = "done" =>
        \A hs \in rangeHeaders, us \in rangeUserDict :
            LET o == Render(hs, us)
            IN  /\ Len(o) = Len(output)
                /\ Body(o) = Body(output)
                /\ Links(o) = Links(output)
                /\ Cardinality(Links(output)) = Cardinality(DOMAIN userDict)
                /\ Cardinality(DOMAIN userDict) <= 1 => o = output

C7_Witness ==
    /\ pc = "done"
    /\ Cardinality(DOMAIN userDict) = 2
    /\ \E us \in rangeUserDict : Render(headers, us) # output

\* C8: a section whose entry list is empty when the report is written has no
\* heading line in it; a section with entries has its heading line, a blank line,
\* its entries in document order and a blank line.
C8_EmptySectionsSuppressed ==
    pc = "done" =>
        \A k \in DOMAIN headers :
            LET h == headers[k]
                list == headerContentDict[h]
            IN  IF list = <<>>
                THEN \A i \in DOMAIN output : ~IsHeadingLineOf(output[i], h)
                ELSE \E i \in DOMAIN output :
                        /\ IsHeadingLineOf(output[i], h)
                        /\ i + Len(list) + 2 <= Len(output)
                        /\ output[i + 1] = <<>>
                        /\ \A n \in DOMAIN list : output[i + 1 + n] = <<"- ">> \o list[n]
                        /\ output[i + Len(list) + 2] = <<>>

C8_Witness ==
    /\ pc = "done" /\ sawSkipped
    /\ Len(headers) = 2
    /\ headerContentDict[headers[1]] = <<>>
    /\ Len(headerContentDict[headers[2]]) = 1

\* the effect of count on content, by the first phrase content contains
C9_Step ==
    LET openPR == Contains(content, <<"opened", "pull", "request">>)
        closePR == \/ Contains(content, <<"merged", "pull", "request">>)
                   \/ Contains(content, <<"closed", "pull", "request">>)
        openIssue == Contains(content, <<"opened", "issue">>)
        closeIssue == Contains(content, <<"closed", "issue">>)
        One(b) == IF b THEN 1 ELSE 0
    IN  pc = "count" /\ pc' = "counted" =>
            /\ prOpen' = prOpen + One(openPR)
            /\ prClose' = prClose + One(~openPR /\ closePR)
            /\ issueOpen' = issueOpen + One(~openPR /\ ~closePR /\ openIssue)
            /\ issueClose' = issueClose
                             + One(~openPR /\ ~closePR /\ ~openIssue /\ closeIssue)

\* C9: count increments at most one counter, by 1, chosen by the first pattern
\* that matches in the order opened pull request, merged or closed pull request,
\* opened issue, closed issue, and leaves the others unchanged, also when the
\* text holds the keywords of several patterns; a text matching none changes no
\* counter.
C9_FirstMatchWins == [][C9_Step]_vars

C9_Witness ==
    /\ pc = "counted"
    /\ content = <<"merged", "pull", "request", "opened", "pull", "request">>
    /\ prOpen = 4 /\ prClose = 4 /\ issueOpen = 1 /\ issueClose = 2

\* C10: the headers slice holds each section name at most once, so the report
\* has at most one heading line per section name.
C10_NoDuplicateSection ==
    /\ \A i, j \in DOMAIN headers : headers[i] = headers[j] => i = j
    /\ \A i, j \in DOMAIN output :
          (Len(output[i]) = 6 /\ output[i][1] = "## [" /\ output[i] = output[j]) => i = j

====
